---- MODULE Spec2Model ----
(***************************************************************************)
(* MediaRecommender of src/sentiment.py: the catalog built by the          *)
(* constructor and the three public methods get_recommendations,           *)
(* get_genre_recommendations and get_genres_for_sentiment; and             *)
(* SentimentAnalyzer.analyze_sentiment with its two callers in main() of   *)
(* src/app.py, the single text analysis and the batch analysis.            *)
(*                                                                         *)
(* Conventions.                                                            *)
(*  - A probability is an exact rational <<n, d>> with d > 0.  For every   *)
(*    value and count used here the float product num * prob of the code   *)
(*    rounds as the exact product does.                                    *)
(*  - A media item is <<media, bucket, i>>: the i-th entry of a fixture    *)
(*    list.  Python compares the item dicts field by field, and the        *)
(*    fixture entries are pairwise different, as these tuples are.         *)
(*  - The fixture lists hold 10 entries each; here they hold at most       *)
(*    MaxPool.  books and movies are plain attributes, so a catalog with   *)
(*    shorter pools is a substituted fixture; the all-empty catalog is     *)
(*    also what the except branch of _fetch_*_data builds.                 *)
(*  - random.sample(population, k) returns k elements chosen by position,  *)
(*    in random order.  No guard, length or membership test of the code    *)
(*    reads that order, so the chosen positions are enumerated and the     *)
(*    elements are listed in population order.                             *)
(*  - A raised exception ends the call: pc = "done", raised names it.      *)
(***************************************************************************)
EXTENDS Integers, Sequences, FiniteSets, TLC

VARIABLES books, movies, genre_sentiment_mapping,
          pc, op, sentiment_probs, sentiment, media_type,
          num_recommendations, idx, total_items, result, raised,
          app_pc, sentiment_result, rec_count, rows, results, outputs,
          tweet, tweet_proc

vars == <<books, movies, genre_sentiment_mapping, pc, op, sentiment_probs,
          sentiment, media_type, num_recommendations, idx, total_items,
          result, raised,
          app_pc, sentiment_result, rec_count, rows, results, outputs,
          tweet, tweet_proc>>

\* The state of main() in src/app.py: where the script run is, the last
\* analysis result, the slider value, the text column of the uploaded CSV,
\* the batch's result rows, and what the model returned for each text.
analysis == <<app_pc, sentiment_result, rec_count, rows, results, outputs>>

\* The argument and the return value of the last preprocess_tweet call.
preprocessing == <<tweet, tweet_proc>>

catalog == <<books, movies, genre_sentiment_mapping>>

(* ------------------------------ bounds --------------------------------- *)

\* Longest fixture list of a bucket (10 in the source).
MaxPool == 3

\* Largest num_recommendations a caller passes.
MaxCount == 5

\* Number of callers that may be inside a method at once.
NCalls == 2

Calls == 1..NCalls

\* Largest number of rows of an uploaded CSV.
MaxRows == 3

\* Largest number of space-separated words of a tweet.
MaxWords == 3

(* --------------------------- small helpers ----------------------------- *)

Min(a, b) == IF a < b THEN a ELSE b

Max(a, b) == IF a > b THEN a ELSE b

Range(s) == {s[i] : i \in DOMAIN s}

NoDuplicates(s) == \A i, j \in DOMAIN s : s[i] = s[j] => i = j

\* Number of positions of s that hold an element of pool.
CountFrom(s, pool) == Cardinality({i \in DOMAIN s : s[i] \in Range(pool)})

\* The elements of s at the positions S, in the order of s.
SubSeqAt(s, S) ==
    [k \in 1..Cardinality(S) |->
        s[CHOOSE i \in S : Cardinality({j \in S : j <= i}) = k]]

\* Rational comparison, denominators positive.
RatLess(p, q) == p[1] * q[2] < q[1] * p[2]

(* ------------------------------ catalog -------------------------------- *)

LABELS == <<"Negative", "Neutral", "Positive">>

Sentiments == Range(LABELS)

\* A dispatch that knows a third media type.
MediaTypesWithMusic == {"books", "movies", "music"}

MediaTypes == {"books", "movies"}

\* A fixture list of `size` entries.
MockItems(media, bucket, size) == [i \in 1..size |-> <<media, bucket, i>>]

\* self.books / self.movies after _fetch_*_data: one list per sentiment.
MockCatalog(media, sizes) ==
    [s \in Sentiments |-> MockItems(media, s, sizes[s])]

GenreMapping ==
    [s \in Sentiments |->
        CASE s = "Positive" ->
               <<"Comedy", "Animation", "Family", "Adventure", "Musical",
                 "Romance", "Fantasy", "Inspirational", "Biography", "Sport">>
          [] s = "Neutral" ->
               <<"Documentary", "History", "Science Fiction", "Action",
                 "Western", "Mystery", "Drama", "Superhero", "Animation",
                 "Thriller">>
          [] s = "Negative" ->
               <<"Horror", "Thriller", "Crime", "War", "Drama", "Mystery",
                 "Film-Noir", "Psychological", "Disaster", "Dystopian">>]

\* Pool sizes of the catalogs the model starts from: a bucket is empty,
\* holds one item, or holds the full fixture list.
PoolSizes == {0, 1, MaxPool}

CatalogShapes == [Sentiments -> PoolSizes]

(* ------------------------------ inputs --------------------------------- *)

\* Probabilities a caller passes: 0, 0.05, 0.1, 0.3, 0.6, 0.9, 1.
ProbVals == {<<0, 1>>, <<1, 20>>, <<1, 10>>, <<3, 10>>, <<6, 10>>,
             <<9, 10>>, <<1, 1>>}

\* The values of the docstring example's key order: 0, 0.1, 0.3, 0.6.
FewProbVals == {<<0, 1>>, <<1, 10>>, <<3, 10>>, <<6, 10>>}

\* Values of malformed profiles: 0, 0.6, and the out-of-range -0.1 and 1.5.
BadProbVals == {<<0, 1>>, <<6, 10>>, <<-1, 10>>, <<3, 2>>}

\* The key order of the docstring example of get_genre_recommendations.
DocOrder == <<"Positive", "Neutral", "Negative">>

\* Key orders of malformed profiles: empty, labels missing, unknown label.
BadKeyOrders == {<< >>, <<"Positive">>, <<"Mood", "Negative">>}

ProfilesOver(keys, vals) ==
    {[i \in DOMAIN keys |-> <<keys[i], v[i]>>] : v \in [DOMAIN keys -> vals]}

\* The sum of a three-key profile is at most 1.
SumAtMostOne(p) ==
    LET a == p[1][2]
        b == p[2][2]
        c == p[3][2]
    IN  a[1] * b[2] * c[2] + b[1] * a[2] * c[2] + c[1] * a[2] * b[2]
           <= a[2] * b[2] * c[2]

\* Profiles with the three labels as keys, in the order analyze_sentiment
\* builds them (LABELS) or in the docstring's, whose values sum to at most 1.
WellFormedProfiles ==
    {p \in ProfilesOver(LABELS, ProbVals) \cup ProfilesOver(DocOrder, FewProbVals) :
        SumAtMostOne(p)}

\* Profiles with missing or unknown keys, and three-label profiles whose
\* values are out of range or sum to more than 1.
MalformedProfiles ==
    UNION {ProfilesOver(k, BadProbVals) : k \in BadKeyOrders}
      \cup ProfilesOver(LABELS, BadProbVals \ {<<0, 1>>})

Profiles == WellFormedProfiles \cup MalformedProfiles

Counts == 1..MaxCount

MediaArgs == MediaTypes \cup {"music"}

SentimentArgs == Sentiments \cup {"Mixed"}

\* Softmax outputs of the model, in the order of LABELS: a clear maximum
\* at either end, every two-way tie for the maximum, and the three-way tie.
ScoreTriples ==
    {<<<<1, 10>>, <<3, 10>>, <<6, 10>>>>, <<<<6, 10>>, <<3, 10>>, <<1, 10>>>>,
     <<<<4, 10>>, <<4, 10>>, <<2, 10>>>>, <<<<4, 10>>, <<2, 10>>, <<4, 10>>>>,
     <<<<2, 10>>, <<4, 10>>, <<4, 10>>>>, <<<<1, 3>>, <<1, 3>>, <<1, 3>>>>}

\* What the tokenizer and model calls of analyze_sentiment end in: scores,
\* or an exception (a text beyond the model's position limit, which the
\* tokenizer call does not truncate; a model that cannot run).
ModelOutcomes ==
    {[err |-> "none", scores |-> t] : t \in ScoreTriples}
      \cup {[err |-> "RuntimeError", scores |-> << >>]}

\* The row of `outputs` for a cell the model was not called on.
NotCalled == [err |-> "not called", scores |-> << >>]

\* Lower end of the "Number of recommendations" slider.
SliderMin == 3

\* Values of the slider (its upper end is 10 in the source).
RecCounts == SliderMin..MaxCount

\* text[:100] and len(text) > 100
PreviewLen == 100

\* A string cell of n characters.
Text(n) == [i \in 1..n |-> IF i % 2 = 1 THEN "a" ELSE "b"]

\* Cells of the text column: a non-string (NaN of an empty cell, a number)
\* or a string shorter than, as long as, or longer than the preview.
Cells ==
    {[str |-> FALSE, text |-> << >>]}
      \cup {[str |-> TRUE, text |-> Text(n)] :
                n \in {2, PreviewLen, PreviewLen + 1}}

\* The text columns of the uploaded CSV files.
RowLists == UNION {[1..n -> Cells] : n \in 1..MaxRows}

\* Words of the tweets: the empty word (two spaces in a row, a leading
\* or trailing space), a lone '@', mentions, the placeholders themselves,
\* URLs, words that only hold or nearly are a prefix, an upper-case HTTP
\* and a mention after a tab.
Words ==
    {<< >>, <<"@">>, <<"@", "a">>, <<"@", "u", "s", "e", "r">>,
     <<"h", "t", "t", "p">>, <<"h", "t", "t", "p", "s", ":">>,
     <<"h", "t", "t">>, <<"a">>, <<"a", "@", "b">>,
     <<"x", "h", "t", "t", "p">>, <<"H", "T", "T", "P">>,
     <<"\t", "@", "a">>}

(* ------------------------- pure parts of the code ---------------------- *)

ThresholdNum == 1

ThresholdDen == 10

\* prob >= 0.1: the threshold test with the boundary let in.
AtOrAboveThreshold(prob) == ~RatLess(prob, <<ThresholdNum, ThresholdDen>>)

\* prob > 0.1
AboveThreshold(prob) == RatLess(<<ThresholdNum, ThresholdDen>>, prob)

\* int(num * prob): the product cut off instead of rounded.
RoundDown(num, prob) == (num * prob[1]) \div prob[2]

\* int(num * prob + 0.5): an exact half rounded up.
RoundHalfUp(num, prob) == (2 * num * prob[1] + prob[2]) \div (2 * prob[2])

\* int(round(num * prob)): Python 3 rounds an exact half to the even
\* neighbour.
RoundHalfEven(num, prob) ==
    LET x == num * prob[1]
        d == prob[2]
        q == x \div d
        r == x % d
    IN  IF 2 * r < d THEN q
        ELSE IF 2 * r > d THEN q + 1
        ELSE IF q % 2 = 0 THEN q ELSE q + 1

\* max(1, int(round(num * prob))): the allocation without the threshold
\* test.
ItemsToTakeUnconditional(num, prob) == Max(1, RoundHalfEven(num, prob))

\* int(round(num * prob)) if prob > 0.1 else 0: the allocation without
\* max(1, ...).
ItemsToTakeRounded(num, prob) ==
    IF AboveThreshold(prob) THEN RoundHalfEven(num, prob) ELSE 0

\* max(1, int(round(num * prob))) if prob > 0.1 else 0
ItemsToTake(num, prob) ==
    IF AboveThreshold(prob) THEN Max(1, RoundHalfEven(num, prob)) ELSE 0

\* d[key]: KeyError for a missing key.
LookupStrict(d, key) ==
    IF key \in DOMAIN d THEN [err |-> "none", val |-> d[key]]
                        ELSE [err |-> "KeyError", val |-> << >>]

\* d.get(key, [])
Lookup(d, key) ==
    IF key \in DOMAIN d THEN [err |-> "none", val |-> d[key]]
                        ELSE [err |-> "none", val |-> << >>]

\* A sampler that returns one pick k times over.
SampleOutcomesRepeating(population, k) ==
    IF k < 0 \/ k > Len(population)
    THEN {[err |-> "ValueError", val |-> << >>]}
    ELSE {[err |-> "none", val |-> [i \in 1..k |-> population[j]]] :
            j \in DOMAIN population}

\* random.sample(population, k): ValueError when k is negative or larger
\* than the population.
SampleOutcomes(population, k) ==
    IF k < 0 \/ k > Len(population)
    THEN {[err |-> "ValueError", val |-> << >>]}
    ELSE {[err |-> "none", val |-> SubSeqAt(population, S)] :
            S \in {T \in SUBSET DOMAIN population : Cardinality(T) = k}}

\* The list left by a sampler that pops what it picks.
PopulationAfterPop(population, selected) ==
    SelectSeq(population, LAMBDA item : item \notin Range(selected))

\* The list a sampled population is afterwards: random.sample selects by
\* index and never writes to its argument.
PopulationAfterSample(population, selected) == population

\* The last key, in iteration order, whose value no other exceeds.
MaxSentimentLast(probs) ==
    LET i == CHOOSE i \in DOMAIN probs :
               /\ \A j \in DOMAIN probs : ~RatLess(probs[i][2], probs[j][2])
               /\ \A j \in (i + 1)..Len(probs) : RatLess(probs[j][2], probs[i][2])
    IN  probs[i][1]

\* max(sentiment_probs, key=sentiment_probs.get): the first key, in
\* iteration order, whose value no other exceeds.  Only for a non-empty dict.
MaxSentiment(probs) ==
    LET i == CHOOSE i \in DOMAIN probs :
               /\ \A j \in DOMAIN probs : ~RatLess(probs[i][2], probs[j][2])
               /\ \A j \in 1..(i - 1) : RatLess(probs[j][2], probs[i][2])
    IN  probs[i][1]

\* The dict built from the labels in reverse order.
SentimentProbabilitiesReversed(scores) ==
    [i \in DOMAIN LABELS |->
        <<LABELS[Len(LABELS) + 1 - i], scores[Len(LABELS) + 1 - i]>>]

\* {self.LABELS[i]: float(scores[i]) for i in range(len(self.LABELS))}:
\* a dict iterates in insertion order.
SentimentProbabilities(scores) ==
    [i \in DOMAIN LABELS |-> <<LABELS[i], scores[i]>>]

\* "..."
Ellipsis == <<".", ".", ".">>

\* text[:100] + "..." if len(text) > 100 else text
Preview(text) ==
    IF Len(text) > PreviewLen THEN SubSeq(text, 1, PreviewLen) \o Ellipsis
                              ELSE text

\* "Invalid text"
InvalidText == <<"I", "n", "v", "a", "l", "i", "d", " ", "t", "e", "x", "t">>

\* The row appended for a cell that is not a string.
InvalidRow ==
    [text |-> InvalidText, max_sentiment |-> "N/A",
     positive |-> <<0, 1>>, neutral |-> <<0, 1>>, negative |-> <<0, 1>>]

\* d[key] of a dict given as key/value pairs.
ValueOf(d, key) == d[CHOOSE i \in DOMAIN d : d[i][1] = key][2]

\* The row appended for a string cell and its analysis result.
ResultRow(text, analysed) ==
    [text |-> Preview(text),
     max_sentiment |-> analysed.max_sentiment,
     positive |-> ValueOf(analysed.probabilities, "Positive"),
     neutral |-> ValueOf(analysed.probabilities, "Neutral"),
     negative |-> ValueOf(analysed.probabilities, "Negative")]

\* '@user'
MentionPlaceholder == <<"@", "u", "s", "e", "r">>

\* 'http'
UrlPlaceholder == <<"h", "t", "t", "p">>

\* word.startswith(prefix)
StartsWith(word, prefix) ==
    Len(word) >= Len(prefix) /\ SubSeq(word, 1, Len(prefix)) = prefix

\* text.split(' '): the pieces between single spaces, empty ones included.
RECURSIVE SplitSpace(_)
SplitSpace(text) ==
    IF \A i \in DOMAIN text : text[i] # " "
    THEN <<text>>
    ELSE LET i == CHOOSE i \in DOMAIN text :
                     /\ text[i] = " "
                     /\ \A j \in 1..(i - 1) : text[j] # " "
         IN  <<SubSeq(text, 1, i - 1)>>
                \o SplitSpace(SubSeq(text, i + 1, Len(text)))

\* " ".join(words)
RECURSIVE JoinSpace(_)
JoinSpace(words) ==
    IF words = << >> THEN << >>
    ELSE IF Len(words) = 1 THEN words[1]
    ELSE words[1] \o <<" ">> \o JoinSpace(Tail(words))

\* A replacement that takes a lone '@' for a mention too.
ReplaceWordAnyMention(word) ==
    IF StartsWith(word, <<"@">>) THEN MentionPlaceholder
    ELSE IF StartsWith(word, UrlPlaceholder) THEN UrlPlaceholder
    ELSE word

\* The body of the loop: what is appended to tweet_words for `word`.
ReplaceWord(word) ==
    IF StartsWith(word, <<"@">>) /\ Len(word) > 1 THEN MentionPlaceholder
    ELSE IF StartsWith(word, UrlPlaceholder) THEN UrlPlaceholder
    ELSE word

\* preprocess_tweet
PreprocessTweet(text) ==
    LET words == SplitSpace(text)
    IN  JoinSpace([i \in DOMAIN words |-> ReplaceWord(words[i])])

\* The bucket's list with the filter left out.
NotSelectedUnfiltered(available_items, selected) == available_items

\* [item for item in available_items if item not in total_items]
NotSelected(available_items, selected) ==
    SelectSeq(available_items, LAMBDA item : item \notin Range(selected))

\* total_items kept in one place for all calls (an attribute of self).
SharedFrame(c) == 1

\* The frame a call's locals live in: total_items is a local of the call.
Frame(c) == c

\* self.books whatever the media type.
AllItemsBooks(mt) == books

\* self.books or self.movies
AllItems(mt) == IF mt = "books" THEN books ELSE movies

(* ------------------------------- state --------------------------------- *)

\* No analysis result yet (st.session_state has no sentiment_result).
NoResult == [ok |-> FALSE, probabilities |-> << >>, max_sentiment |-> "none"]

\* An analyze_sentiment that answers a failed model call with the all-zero
\* profile.
AnalyzeSentimentDefault(out) ==
    LET probs == SentimentProbabilities(
                     IF out.err = "none" THEN out.scores
                     ELSE <<<<0, 1>>, <<0, 1>>, <<0, 1>>>>)
    IN  [err |-> "none",
         val |-> [ok |-> TRUE, probabilities |-> probs,
                  max_sentiment |-> MaxSentiment(probs)]]

\* analyze_sentiment, given what the model call ends in: an exception of
\* the call leaves the method; else the profile dict and its max key.
AnalyzeSentiment(out) ==
    IF out.err # "none"
    THEN [err |-> out.err, val |-> NoResult]
    ELSE LET probs == SentimentProbabilities(out.scores)
         IN  [err |-> "none",
              val |-> [ok |-> TRUE, probabilities |-> probs,
                       max_sentiment |-> MaxSentiment(probs)]]

\* MediaRecommender.__init__: the genre mapping, then the two catalogs,
\* taken from the pairs <<books, movies>> of `catalogs`.  No call is in
\* progress; the text the analyzer will be given is one of `texts`.
InitTexts(catalogs, texts) ==
    /\ \E pair \in catalogs :
          /\ books = pair[1]
          /\ movies = pair[2]
    /\ genre_sentiment_mapping = GenreMapping
    /\ pc = [c \in Calls |-> "idle"]
    /\ op = [c \in Calls |-> "none"]
    /\ sentiment_probs = [c \in Calls |-> << >>]
    /\ sentiment = [c \in Calls |-> "none"]
    /\ media_type = [c \in Calls |-> "none"]
    /\ num_recommendations = [c \in Calls |-> 0]
    /\ idx = [c \in Calls |-> 0]
    /\ total_items = [f \in Calls |-> << >>]
    /\ result = [c \in Calls |-> << >>]
    /\ raised = [c \in Calls |-> "none"]
    /\ app_pc = "idle"
    /\ sentiment_result = NoResult
    /\ rec_count = 0
    /\ rows = << >>
    /\ results = << >>
    /\ outputs = << >>
    /\ tweet \in texts
    /\ tweet_proc = << >>

\* The same, with no text at hand.
InitFrom(catalogs) == InitTexts(catalogs, {<< >>})

\* The catalogs are the fixture lists, cut to the sizes of a shape.
InitWith(shapes) ==
    InitFrom({<<MockCatalog("books", shape), MockCatalog("movies", shape)>> :
                 shape \in shapes})

Init == InitWith(CatalogShapes)

\* The catalog dict `all_items` after the list under `key` became `list`.
WithPool(all_items, key, list) ==
    IF key \in DOMAIN all_items THEN [all_items EXCEPT ![key] = list]
                                ELSE all_items

\* The effect on self.books and self.movies of a step of a call on media
\* type mt that handed the list under `key` to random.sample.
SampledFromCatalog(mt, key, selected) ==
    /\ books' = IF mt = "books"
                THEN WithPool(books, key,
                         PopulationAfterSample(Lookup(books, key).val, selected))
                ELSE books
    /\ movies' = IF mt = "movies"
                 THEN WithPool(movies, key,
                          PopulationAfterSample(Lookup(movies, key).val, selected))
                 ELSE movies
    /\ UNCHANGED genre_sentiment_mapping

\* An exception leaves the method: the call ends without a return value.
Raise(c, e) ==
    /\ pc' = [pc EXCEPT ![c] = "done"]
    /\ raised' = [raised EXCEPT ![c] = e]
    /\ result' = [result EXCEPT ![c] = << >>]

(* ----------------------- get_genre_recommendations --------------------- *)

\* Entry and media type dispatch: an unknown media type returns [] at once;
\* otherwise total_items = [] and the loop over the profile starts.
CallGenreRecommendations(c, profiles, counts) ==
    /\ pc[c] = "idle"
    /\ \E p \in profiles, mt \in MediaArgs, n \in counts :
          /\ op' = [op EXCEPT ![c] = "get_genre_recommendations"]
          /\ sentiment_probs' = [sentiment_probs EXCEPT ![c] = p]
          /\ media_type' = [media_type EXCEPT ![c] = mt]
          /\ num_recommendations' = [num_recommendations EXCEPT ![c] = n]
          /\ IF mt \in MediaTypes
             THEN /\ total_items' = [total_items EXCEPT ![Frame(c)] = << >>]
                  /\ idx' = [idx EXCEPT ![c] = 1]
                  /\ pc' = [pc EXCEPT ![c] =
                              IF Len(p) = 0 THEN "backfill" ELSE "loop"]
                  /\ UNCHANGED result
             ELSE /\ pc' = [pc EXCEPT ![c] = "done"]
                  /\ result' = [result EXCEPT ![c] = << >>]
                  /\ UNCHANGED <<total_items, idx>>
    /\ UNCHANGED <<catalog, sentiment, raised>>
    /\ UNCHANGED analysis
    /\ UNCHANGED preprocessing

\* The selection without the emptiness test and without min().
SelectedUnguarded(available_items, items_to_take) ==
    SampleOutcomes(available_items, items_to_take)

\* What one iteration of the loop may select from the bucket's list.
Selected(available_items, items_to_take) ==
    IF available_items # << >> /\ items_to_take > 0
    THEN SampleOutcomes(available_items,
                        Min(items_to_take, Len(available_items)))
    ELSE {[err |-> "none", val |-> << >>]}

\* One iteration of `for sentiment, prob in sentiment_probs.items()`.
StepOne(c) ==
    /\ pc[c] = "loop"
    /\ LET item          == sentiment_probs[c][idx[c]]
           items_to_take == ItemsToTake(num_recommendations[c], item[2])
           found         == Lookup(AllItems(media_type[c]), item[1])
       IN  \E sel \in Selected(found.val, items_to_take) :
              /\ IF found.err # "none" \/ sel.err # "none"
                 THEN /\ Raise(c, IF found.err # "none" THEN found.err
                                                        ELSE sel.err)
                      /\ UNCHANGED <<total_items, idx>>
                 ELSE /\ total_items' =
                           [total_items EXCEPT ![Frame(c)] = @ \o sel.val]
                      /\ idx' = [idx EXCEPT ![c] = @ + 1]
                      /\ pc' = [pc EXCEPT ![c] =
                                  IF idx[c] = Len(sentiment_probs[c])
                                  THEN "backfill" ELSE "loop"]
                      /\ UNCHANGED <<result, raised>>
              /\ SampledFromCatalog(media_type[c], item[1], sel.val)
    /\ UNCHANGED <<op, sentiment_probs, sentiment, media_type,
                   num_recommendations>>
    /\ UNCHANGED analysis
    /\ UNCHANGED preprocessing

\* The shortfall taken to be num_recommendations itself.
RemainingNeededWhole(num, selected) == num

\* The shortfall counted one too small.
RemainingNeededShort(num, selected) == num - Len(selected) - 1

\* remaining_needed
RemainingNeeded(num, selected) == num - Len(selected)

\* A backfill that appends one item, whatever the shortfall.
AdditionalSingle(available_items, remaining_needed) ==
    IF available_items # << >>
    THEN SampleOutcomes(available_items, 1)
    ELSE {[err |-> "none", val |-> << >>]}

\* What the backfill block may append: nothing when the filtered list is
\* empty, else a sample of min(remaining_needed, len) of its items.
Additional(available_items, remaining_needed) ==
    IF available_items # << >>
    THEN SampleOutcomes(available_items,
                        Min(remaining_needed, Len(available_items)))
    ELSE {[err |-> "none", val |-> << >>]}

\* `if len(total_items) < num_recommendations:` and its block.  max() of
\* an empty dict raises ValueError.
Backfill(c) ==
    /\ pc[c] = "backfill"
    /\ LET mine == total_items[Frame(c)]
           num  == num_recommendations[c]
       IN  IF Len(mine) < num
           THEN IF sentiment_probs[c] = << >>
                THEN /\ Raise(c, "ValueError")
                     /\ UNCHANGED total_items
                ELSE LET max_sentiment == MaxSentiment(sentiment_probs[c])
                         found == Lookup(AllItems(media_type[c]), max_sentiment)
                         available_items == NotSelected(found.val, mine)
                     IN  \E add \in Additional(available_items,
                                               RemainingNeeded(num, mine)) :
                           IF found.err # "none" \/ add.err # "none"
                           THEN /\ Raise(c, IF found.err # "none"
                                            THEN found.err ELSE add.err)
                                /\ UNCHANGED total_items
                           ELSE /\ total_items' = [total_items EXCEPT
                                       ![Frame(c)] = @ \o add.val]
                                /\ pc' = [pc EXCEPT ![c] = "trim"]
                                /\ UNCHANGED <<result, raised>>
           ELSE /\ pc' = [pc EXCEPT ![c] = "trim"]
                /\ UNCHANGED <<total_items, result, raised>>
    /\ UNCHANGED <<catalog, op, sentiment_probs, sentiment, media_type,
                   num_recommendations, idx>>
    /\ UNCHANGED analysis
    /\ UNCHANGED preprocessing

\* total_items returned as it is, however long.
Untrimmed(items, num) == {[err |-> "none", val |-> items]}

\* What the trim leaves of total_items.
Trimmed(items, num) ==
    IF Len(items) > num THEN SampleOutcomes(items, num)
                        ELSE {[err |-> "none", val |-> items]}

\* `if len(total_items) > num_recommendations:` and `return total_items`.
TrimAndReturn(c) ==
    /\ pc[c] = "trim"
    /\ \E t \in Trimmed(total_items[Frame(c)], num_recommendations[c]) :
          IF t.err # "none"
          THEN /\ Raise(c, t.err)
               /\ UNCHANGED total_items
          ELSE /\ total_items' = [total_items EXCEPT ![Frame(c)] = t.val]
               /\ result' = [result EXCEPT ![c] = t.val]
               /\ pc' = [pc EXCEPT ![c] = "done"]
               /\ UNCHANGED raised
    /\ UNCHANGED <<catalog, op, sentiment_probs, sentiment, media_type,
                   num_recommendations, idx>>
    /\ UNCHANGED analysis
    /\ UNCHANGED preprocessing

(* -------------------------- the two lookups ---------------------------- *)

\* get_recommendations: the bucket's list itself when it is no longer
\* than num_recommendations, else a sample of it.
GetRecommendations(c) ==
    /\ pc[c] = "idle"
    /\ \E s \in SentimentArgs, mt \in MediaArgs, n \in Counts :
          /\ op' = [op EXCEPT ![c] = "get_recommendations"]
          /\ sentiment' = [sentiment EXCEPT ![c] = s]
          /\ media_type' = [media_type EXCEPT ![c] = mt]
          /\ num_recommendations' = [num_recommendations EXCEPT ![c] = n]
          /\ IF mt \notin MediaTypes
             THEN /\ result' = [result EXCEPT ![c] = << >>]
                  /\ pc' = [pc EXCEPT ![c] = "done"]
                  /\ UNCHANGED <<raised, catalog>>
             ELSE LET found == Lookup(AllItems(mt), s)
                      all_recommendations == found.val
                  IN  IF found.err # "none"
                      THEN Raise(c, found.err) /\ UNCHANGED catalog
                      ELSE IF Len(all_recommendations) > n
                      THEN \E sel \in SampleOutcomes(all_recommendations, n) :
                              /\ IF sel.err # "none"
                                 THEN Raise(c, sel.err)
                                 ELSE /\ result' = [result EXCEPT ![c] = sel.val]
                                      /\ pc' = [pc EXCEPT ![c] = "done"]
                                      /\ UNCHANGED raised
                              /\ SampledFromCatalog(mt, s, sel.val)
                      ELSE /\ result' = [result EXCEPT ![c] = all_recommendations]
                           /\ pc' = [pc EXCEPT ![c] = "done"]
                           /\ UNCHANGED <<raised, catalog>>
    /\ UNCHANGED <<sentiment_probs, idx, total_items>>
    /\ UNCHANGED analysis
    /\ UNCHANGED preprocessing

\* get_genres_for_sentiment
GetGenresForSentiment(c) ==
    /\ pc[c] = "idle"
    /\ \E s \in SentimentArgs :
          /\ op' = [op EXCEPT ![c] = "get_genres_for_sentiment"]
          /\ sentiment' = [sentiment EXCEPT ![c] = s]
          /\ LET found == Lookup(genre_sentiment_mapping, s)
             IN  IF found.err # "none"
                 THEN Raise(c, found.err)
                 ELSE /\ result' = [result EXCEPT ![c] = found.val]
                      /\ pc' = [pc EXCEPT ![c] = "done"]
                      /\ UNCHANGED raised
    /\ UNCHANGED <<catalog, sentiment_probs, media_type, num_recommendations,
                   idx, total_items>>
    /\ UNCHANGED analysis
    /\ UNCHANGED preprocessing

\* The caller has taken the return value (or the exception); the call's
\* frame is gone.
Return(c) ==
    /\ pc[c] = "done"
    /\ pc' = [pc EXCEPT ![c] = "idle"]
    /\ op' = [op EXCEPT ![c] = "none"]
    /\ sentiment_probs' = [sentiment_probs EXCEPT ![c] = << >>]
    /\ sentiment' = [sentiment EXCEPT ![c] = "none"]
    /\ media_type' = [media_type EXCEPT ![c] = "none"]
    /\ num_recommendations' = [num_recommendations EXCEPT ![c] = 0]
    /\ idx' = [idx EXCEPT ![c] = 0]
    /\ total_items' = [total_items EXCEPT ![Frame(c)] = << >>]
    /\ result' = [result EXCEPT ![c] = << >>]
    /\ raised' = [raised EXCEPT ![c] = "none"]
    /\ UNCHANGED catalog
    /\ UNCHANGED analysis
    /\ UNCHANGED preprocessing

(* ------------------------------ main() --------------------------------- *)

\* The recommender is not touched by a step of main() outside its calls.
recommender == <<books, movies, genre_sentiment_mapping, pc, op,
                 sentiment_probs, sentiment, media_type, num_recommendations,
                 idx, total_items, result, raised>>

\* "Analyze Sentiment" pressed with a text: analyze_sentiment is called.
\* Its exception leaves main(); else the result goes to the session state
\* and the recommendations follow.
AnalyzeText ==
    /\ app_pc = "idle"
    /\ \E out \in ModelOutcomes, n \in RecCounts :
          LET analysed == AnalyzeSentiment(out)
          IN  /\ outputs' = <<out>>
              /\ rec_count' = n
              /\ IF analysed.err # "none"
                 THEN /\ app_pc' = "failed"
                      /\ UNCHANGED sentiment_result
                 ELSE /\ app_pc' = "books"
                      /\ sentiment_result' = analysed.val
    /\ UNCHANGED <<rows, results>>
    /\ UNCHANGED recommender
    /\ UNCHANGED preprocessing

\* A rerun without a new analysis: the result kept in the session state is
\* shown again, with the slider's value.
ShowPrevious ==
    /\ app_pc = "idle"
    /\ sentiment_result.ok
    /\ \E n \in RecCounts : rec_count' = n
    /\ app_pc' = "books"
    /\ UNCHANGED <<sentiment_result, rows, results, outputs>>
    /\ UNCHANGED recommender
    /\ UNCHANGED preprocessing

\* The profile handed over with its keys in the opposite order.
ProbabilitiesReordered(analysed) ==
    [i \in DOMAIN analysed.probabilities |->
        analysed.probabilities[Len(analysed.probabilities) + 1 - i]]

\* sentiment_result["probabilities"]: the dict analyze_sentiment built,
\* handed over as it is.
ProbabilitiesOf(analysed) == analysed.probabilities

\* display_media_recommendations: the call for books.
RecommendBooks ==
    /\ app_pc = "books"
    /\ CallGenreRecommendations(1, {ProbabilitiesOf(sentiment_result)},
                                {rec_count})
    /\ media_type'[1] = "books"

\* book_recommendations is assigned.
BooksReturned ==
    /\ app_pc = "books" /\ pc[1] = "done"
    /\ app_pc' = IF raised[1] = "none" THEN "movies" ELSE "failed"
    /\ UNCHANGED <<sentiment_result, rec_count, rows, results, outputs>>
    /\ UNCHANGED recommender
    /\ UNCHANGED preprocessing

\* display_media_recommendations: the call for movies.
RecommendMovies ==
    /\ app_pc = "movies"
    /\ CallGenreRecommendations(1, {ProbabilitiesOf(sentiment_result)},
                                {rec_count})
    /\ media_type'[1] = "movies"

\* movie_recommendations is assigned and both lists are displayed.
MoviesReturned ==
    /\ app_pc = "movies" /\ pc[1] = "done" /\ media_type[1] = "movies"
    /\ app_pc' = IF raised[1] = "none" THEN "shown" ELSE "failed"
    /\ UNCHANGED <<sentiment_result, rec_count, rows, results, outputs>>
    /\ UNCHANGED recommender
    /\ UNCHANGED preprocessing

\* The frame of a call whose return value main() has taken is gone.
FrameLeft ==
    /\ \/ app_pc = "movies" /\ media_type[1] = "books"
       \/ app_pc \in {"shown", "failed"}
    /\ Return(1)

\* "Run Batch Analysis" pressed on an uploaded CSV: results = [].
RunBatch ==
    /\ app_pc = "idle"
    /\ \E column \in RowLists : rows' = column
    /\ results' = << >>
    /\ outputs' = << >>
    /\ app_pc' = "batch"
    /\ UNCHANGED <<sentiment_result, rec_count>>
    /\ UNCHANGED recommender
    /\ UNCHANGED preprocessing

\* One iteration of `for i, text in enumerate(df[text_column])`.  An
\* exception of analyze_sentiment leaves the loop for the `except` around
\* the whole batch, which prints the error.
BatchRow ==
    /\ app_pc = "batch"
    /\ Len(results) < Len(rows)
    /\ LET cell == rows[Len(results) + 1]
       IN  IF cell.str
           THEN \E out \in ModelOutcomes :
                   LET analysed == AnalyzeSentiment(out)
                   IN  /\ outputs' = Append(outputs, out)
                       /\ IF analysed.err # "none"
                          THEN /\ app_pc' = "batch_failed"
                               /\ UNCHANGED results
                          ELSE /\ results' = Append(results,
                                      ResultRow(cell.text, analysed.val))
                               /\ UNCHANGED app_pc
           ELSE /\ results' = Append(results, InvalidRow)
                /\ outputs' = Append(outputs, NotCalled)
                /\ UNCHANGED app_pc
    /\ UNCHANGED <<sentiment_result, rec_count, rows>>
    /\ UNCHANGED recommender
    /\ UNCHANGED preprocessing

\* The loop has ended: results_df is built and displayed.
BatchShown ==
    /\ app_pc = "batch"
    /\ Len(results) = Len(rows)
    /\ app_pc' = "batch_shown"
    /\ UNCHANGED <<sentiment_result, rec_count, rows, results, outputs>>
    /\ UNCHANGED recommender
    /\ UNCHANGED preprocessing

\* The script run has ended; the next interaction starts a new one.  Only
\* the session state (the last analysis result) is kept.
Rerun ==
    /\ \/ app_pc \in {"shown", "failed"} /\ pc[1] = "idle"
       \/ app_pc \in {"batch_shown", "batch_failed"}
    /\ app_pc' = "idle"
    /\ rec_count' = 0
    /\ rows' = << >>
    /\ results' = << >>
    /\ outputs' = << >>
    /\ UNCHANGED sentiment_result
    /\ UNCHANGED recommender
    /\ UNCHANGED preprocessing

(* -------------------------- preprocess_tweet --------------------------- *)

\* The texts preprocess_tweet is called on: up to MaxWords words, a
\* single space between each two.
Tweets ==
    {JoinSpace(ws) : ws \in UNION {[1..n -> Words] : n \in 1..MaxWords}}

\* tweet_proc = self.preprocess_tweet(tweet)
PreprocessTweetCall ==
    /\ tweet_proc' = PreprocessTweet(tweet)
    /\ UNCHANGED tweet
    /\ UNCHANGED recommender
    /\ UNCHANGED analysis

\* preprocess_tweet called on what it returned.
PreprocessTweetAgain ==
    /\ tweet' = tweet_proc
    /\ tweet_proc' = PreprocessTweet(tweet_proc)
    /\ UNCHANGED recommender
    /\ UNCHANGED analysis

(* --------------------------- specifications ---------------------------- *)

\* One caller at a time: a Streamlit script run calls the methods in turn.
Next ==
    \E c \in {1} :
       \/ CallGenreRecommendations(c, Profiles, Counts)
       \/ StepOne(c)
       \/ Backfill(c)
       \/ TrimAndReturn(c)
       \/ GetRecommendations(c)
       \/ GetGenresForSentiment(c)
       \/ Return(c)

Spec == Init /\ [][Next]_vars

\* The catalog of the concurrent runs: the full Positive list, one item in
\* each other bucket.
ConcShapes ==
    {[s \in Sentiments |-> IF s = "Positive" THEN MaxPool ELSE 1]}

\* Profiles of the concurrent callers: {Negative: 0.1, Neutral: 0.3,
\* Positive: 0.6} and the all-zero profile.
ConcProfiles ==
    {<<<<"Negative", <<1, 10>>>>, <<"Neutral", <<3, 10>>>>,
       <<"Positive", <<6, 10>>>>>>,
     <<<<"Negative", <<0, 1>>>>, <<"Neutral", <<0, 1>>>>,
       <<"Positive", <<0, 1>>>>>>}

ConcCounts == {1, 3}

InitConc == InitWith(ConcShapes)

\* Callers in several threads (Streamlit sessions share the recommender):
\* the steps of their get_genre_recommendations calls interleave.
NextConc ==
    \E c \in Calls :
       \/ CallGenreRecommendations(c, ConcProfiles, ConcCounts)
       \/ StepOne(c)
       \/ Backfill(c)
       \/ TrimAndReturn(c)
       \/ Return(c)

SpecConc == InitConc /\ [][NextConc]_vars

\* A catalog whose bucket lists overlap, as fetched data tagged with
\* several genres would: the first Positive item is in the Neutral list
\* too, and the first Neutral item in the Negative list.
OverlappingCatalog(media) ==
    [s \in Sentiments |->
        CASE s = "Positive" -> MockItems(media, "Positive", MaxPool)
          [] s = "Neutral" -> <<<<media, "Positive", 1>>>>
                                 \o MockItems(media, "Neutral", 1)
          [] s = "Negative" -> <<<<media, "Neutral", 1>>>>]

InitOverlap ==
    InitFrom({<<OverlappingCatalog("books"), OverlappingCatalog("movies")>>})

\* get_genre_recommendations calls on the overlapping catalog.
NextOverlap ==
    \E c \in {1} :
       \/ CallGenreRecommendations(c, WellFormedProfiles, Counts)
       \/ StepOne(c)
       \/ Backfill(c)
       \/ TrimAndReturn(c)
       \/ Return(c)

SpecOverlap == InitOverlap /\ [][NextOverlap]_vars

\* The catalog of the app: the full fixture list in every bucket.
AppShapes == {[s \in Sentiments |-> MaxPool]}

InitApp == InitWith(AppShapes)

\* Script runs of main(): a single analysis with its two recommendation
\* calls, or a batch analysis.
NextApp ==
    \/ AnalyzeText
    \/ ShowPrevious
    \/ RecommendBooks
    \/ BooksReturned
    \/ RecommendMovies
    \/ MoviesReturned
    \/ StepOne(1)
    \/ Backfill(1)
    \/ TrimAndReturn(1)
    \/ FrameLeft
    \/ RunBatch
    \/ BatchRow
    \/ BatchShown
    \/ Rerun

SpecApp == InitApp /\ [][NextApp]_vars

\* The dict a failed load would leave without the fallback: self.movies = {}
FetchFallbackBare == [s \in {} |-> << >>]

\* The fallback of _fetch_movie_data / _fetch_book_data when loading
\* raises: {"Positive": [], "Neutral": [], "Negative": []}
FetchFallback ==
    [s \in {"Positive", "Neutral", "Negative"} |-> << >>]

\* What _fetch_movie_data / _fetch_book_data leaves in self.movies /
\* self.books: the three mock lists, or the fallback.
FetchOutcomes(media) ==
    {MockCatalog(media, [s \in Sentiments |-> MaxPool]), FetchFallback}

\* MediaRecommender.__init__ with either outcome of either load.
InitConstructed ==
    InitFrom({<<b, m>> : b \in FetchOutcomes("books"),
                         m \in FetchOutcomes("movies")})

\* The methods of the recommender on a catalog as constructed.
SpecConstructed == InitConstructed /\ [][Next]_vars

\* Probabilities whose product with a count is an exact half (0.3, 0.5,
\* 0.9 with 5; 0.5 with 1 and 3), and 0 and 0.1 to fill a profile up.
HalfProbVals == {<<0, 1>>, <<1, 10>>, <<3, 10>>, <<1, 2>>, <<9, 10>>}

\* Profiles in the order of LABELS over these values, summing to at most 1.
HalfProfiles == {p \in ProfilesOver(LABELS, HalfProbVals) : SumAtMostOne(p)}

\* Catalogs in which one bucket holds as many items as the largest count,
\* so that its allocation is not cut to the pool size, and the others one.
RoundingShapes ==
    {[s \in Sentiments |-> IF s = big THEN MaxCount ELSE 1] :
        big \in Sentiments}

InitRounding == InitWith(RoundingShapes)

\* get_genre_recommendations calls on these catalogs and profiles.
NextRounding ==
    \E c \in {1} :
       \/ CallGenreRecommendations(c, HalfProfiles, Counts)
       \/ StepOne(c)
       \/ Backfill(c)
       \/ TrimAndReturn(c)
       \/ Return(c)

SpecRounding == InitRounding /\ [][NextRounding]_vars

\* Calls of preprocess_tweet, on texts and on its own results.
NextPreprocess ==
    \/ PreprocessTweetCall
    \/ PreprocessTweetAgain

\* The recommender as the app builds it, and a text for the analyzer.
InitPreprocess ==
    InitTexts({<<MockCatalog("books", shape), MockCatalog("movies", shape)>> :
                  shape \in AppShapes}, Tweets)

SpecPreprocess == InitPreprocess /\ [][NextPreprocess]_vars

(* ------------------------ vocabulary of the claims --------------------- *)

\* Call c is a get_genre_recommendations call on a known media type.
Allocating(c) ==
    op[c] = "get_genre_recommendations" /\ media_type[c] \in MediaTypes

\* Call c is such a call and has ended.
Allocated(c) == Allocating(c) /\ pc[c] = "done"

\* The profile's keys are exactly the three labels.
ThreeLabels(p) == Len(p) = 3 /\ {p[i][1] : i \in DOMAIN p} = Sentiments

\* The probability a three-label profile gives label s.
ProbOf(p, s) == p[CHOOSE i \in DOMAIN p : p[i][1] = s][2]

\* The bucket pool of label s in the catalog call c reads.
PoolOf(c, s) == AllItems(media_type[c])[s]

\* Number of items in the three pools of the catalog call c reads.
TotalOf(c) ==
    Len(PoolOf(c, "Negative")) + Len(PoolOf(c, "Neutral"))
      + Len(PoolOf(c, "Positive"))

\* The pools of the catalog call c reads are duplicate-free and pairwise
\* disjoint.
DisjointPools(c) ==
    /\ \A s \in Sentiments : NoDuplicates(PoolOf(c, s))
    /\ \A s, t \in Sentiments :
          s # t => Range(PoolOf(c, s)) \cap Range(PoolOf(c, t)) = {}

\* p <= 0.1, stated on the numbers.
AtMostTenth(prob) == 10 * prob[1] <= prob[2]

\* Label s is the dominant label of three-label profile p: no label has a
\* higher probability and no earlier key has an equal one.
Dominant(p, s) ==
    \E i \in DOMAIN p :
       /\ p[i][1] = s
       /\ \A j \in DOMAIN p : p[j][2][1] * p[i][2][2] <= p[i][2][1] * p[j][2][2]
       /\ \A j \in 1..(i - 1) :
             p[j][2][1] * p[i][2][2] < p[i][2][1] * p[j][2][2]

\* What step 1 draws from the pool of label s in call c.
DrawOf(c, s) ==
    Min(ItemsToTake(num_recommendations[c], ProbOf(sentiment_probs[c], s)),
        Len(PoolOf(c, s)))

(* -------------------------------- C1 ----------------------------------- *)

\* C1: on a catalog whose pools are pairwise disjoint and duplicate-free,
\* get_genre_recommendations returns, for every three-label profile and
\* every count >= 1, a list of at most count items without a repeated item.
C1_LengthAndNoDuplicates ==
    \A c \in Calls :
       (Allocated(c) /\ ThreeLabels(sentiment_probs[c]) /\ DisjointPools(c))
          => /\ raised[c] = "none"
             /\ Len(result[c]) <= num_recommendations[c]
             /\ NoDuplicates(result[c])

\* A call that drew from two buckets, backfilled and filled all count slots.
C1_Witness ==
    /\ Allocated(1) /\ ThreeLabels(sentiment_probs[1])
    /\ num_recommendations[1] >= 3
    /\ Len(result[1]) = num_recommendations[1]
    /\ \E s, t \in Sentiments :
          /\ s # t
          /\ CountFrom(result[1], PoolOf(1, s)) > DrawOf(1, s)
          /\ CountFrom(result[1], PoolOf(1, t)) > 0

(* -------------------------------- C2 ----------------------------------- *)

\* C2 as stated: when count exceeds the number of items in the three pools,
\* the result holds as many items as the three pools together.
C2_ReturnsWholeCatalog ==
    \A c \in Calls :
       (Allocated(c) /\ ThreeLabels(sentiment_probs[c])
          /\ num_recommendations[c] > TotalOf(c))
          => Len(result[c]) = TotalOf(c)

\* C2, amended: when count exceeds the number of items in the three
\* (disjoint) pools, the result holds every item of the dominant label's
\* pool and, of each other label's pool, the min(allocation, pool size)
\* items step 1 drew; its length is at most the catalog size.
C2_DominantPoolAndStepOneDraws ==
    \A c \in Calls :
       (Allocated(c) /\ ThreeLabels(sentiment_probs[c]) /\ DisjointPools(c)
          /\ num_recommendations[c] > TotalOf(c))
          => /\ raised[c] = "none"
             /\ Len(result[c]) <= TotalOf(c)
             /\ \A s \in Sentiments :
                   CountFrom(result[c], PoolOf(c, s)) =
                      IF Dominant(sentiment_probs[c], s)
                      THEN Len(PoolOf(c, s)) ELSE DrawOf(c, s)

\* A call with count above the catalog size that returned the dominant
\* pool, backfilled, and still left items of the catalog out.
C2_Witness ==
    /\ Allocated(1) /\ ThreeLabels(sentiment_probs[1])
    /\ num_recommendations[1] > TotalOf(1)
    /\ Len(result[1]) < TotalOf(1)
    /\ \E s \in Sentiments :
          /\ Dominant(sentiment_probs[1], s)
          /\ DrawOf(1, s) < Len(PoolOf(1, s))
          /\ CountFrom(result[1], PoolOf(1, s)) = Len(PoolOf(1, s))

(* -------------------------------- C3 ----------------------------------- *)

\* Label s is the only one of profile p with probability > 0.1.
OnlyAbove(p, s) ==
    /\ ~AtMostTenth(ProbOf(p, s))
    /\ \A t \in Sentiments \ {s} : AtMostTenth(ProbOf(p, t))

\* C3: when exactly one label has probability > 0.1 and its pool holds at
\* least count items, the result holds exactly count items, all of them of
\* that label's pool.
C3_SingleLabelFillsFromItsPool ==
    \A c \in Calls : \A s \in Sentiments :
       (Allocated(c) /\ ThreeLabels(sentiment_probs[c])
          /\ OnlyAbove(sentiment_probs[c], s)
          /\ Len(PoolOf(c, s)) >= num_recommendations[c])
          => /\ raised[c] = "none"
             /\ Len(result[c]) = num_recommendations[c]
             /\ Range(result[c]) \subseteq Range(PoolOf(c, s))

\* Such a call whose step 1 drew fewer than count items, so that the
\* backfill supplied the rest, with another label on the threshold.
C3_Witness ==
    \E s \in Sentiments :
       /\ Allocated(1) /\ ThreeLabels(sentiment_probs[1])
       /\ OnlyAbove(sentiment_probs[1], s)
       /\ \E t \in Sentiments : ProbOf(sentiment_probs[1], t) = <<1, 10>>
       /\ Len(PoolOf(1, s)) >= num_recommendations[1]
       /\ DrawOf(1, s) < num_recommendations[1]
       /\ Len(result[1]) = num_recommendations[1]

(* -------------------------------- C4 ----------------------------------- *)

\* C4: when every label's probability is <= 0.1, the loop of step 1 selects
\* nothing, and every item of the returned result is of the pool of the
\* dominant label (the first, in key order, of the highest probability).
C4_AllBelowThresholdBackfillsFromDominant ==
    \A c \in Calls :
       (Allocating(c) /\ ThreeLabels(sentiment_probs[c])
          /\ \A s \in Sentiments : AtMostTenth(ProbOf(sentiment_probs[c], s)))
          => /\ pc[c] \in {"loop", "backfill"} => total_items[c] = << >>
             /\ pc[c] = "done" =>
                   /\ raised[c] = "none"
                   /\ \E s \in Sentiments :
                         /\ Dominant(sentiment_probs[c], s)
                         /\ Range(result[c]) \subseteq Range(PoolOf(c, s))

\* The all-zero profile on a catalog with a non-empty Positive pool: the
\* call returned items, all of the first key's pool.
C4_Witness ==
    /\ Allocated(1) /\ ThreeLabels(sentiment_probs[1])
    /\ \A s \in Sentiments : ProbOf(sentiment_probs[1], s) = <<0, 1>>
    /\ PoolOf(1, "Positive") # << >>
    /\ Len(result[1]) >= 2

(* -------------------------------- C5 ----------------------------------- *)

\* The profile of call c is {Positive: 0.6, Neutral: 0.3, Negative: 0.1}.
ScenarioProfile(c) ==
    /\ ThreeLabels(sentiment_probs[c])
    /\ ProbOf(sentiment_probs[c], "Positive") = <<6, 10>>
    /\ ProbOf(sentiment_probs[c], "Neutral") = <<3, 10>>
    /\ ProbOf(sentiment_probs[c], "Negative") = <<1, 10>>

\* C5: with {Positive: 0.6, Neutral: 0.3, Negative: 0.1}, books and count 5
\* (the Positive pool holding at least 3 items and the Neutral pool at least
\* 2) the result holds 5 distinct items: 3 Positive, 2 Neutral, 0 Negative.
\* In general, when the step-1 draws min(allocation, pool size) add up to
\* count, the list holds exactly that many items of each bucket after the
\* loop, after the backfill and when returned.
C5_ExactSplit ==
    \A c \in Calls :
       (Allocating(c) /\ ThreeLabels(sentiment_probs[c]) /\ DisjointPools(c)
          /\ pc[c] \in {"backfill", "trim", "done"})
          => /\ (DrawOf(c, "Negative") + DrawOf(c, "Neutral")
                   + DrawOf(c, "Positive") = num_recommendations[c])
                => /\ raised[c] = "none"
                   /\ Len(total_items[c]) = num_recommendations[c]
                   /\ NoDuplicates(total_items[c])
                   /\ \A s \in Sentiments :
                         CountFrom(total_items[c], PoolOf(c, s)) = DrawOf(c, s)
                   /\ pc[c] = "done" => result[c] = total_items[c]
             /\ (ScenarioProfile(c) /\ media_type[c] = "books"
                   /\ num_recommendations[c] = 5 /\ pc[c] = "done"
                   /\ Len(books["Positive"]) >= 3 /\ Len(books["Neutral"]) >= 2)
                => /\ Len(result[c]) = 5
                   /\ NoDuplicates(result[c])
                   /\ CountFrom(result[c], books["Positive"]) = 3
                   /\ CountFrom(result[c], books["Neutral"]) = 2
                   /\ CountFrom(result[c], books["Negative"]) = 0

\* The scenario's call has returned, on a catalog with a Negative pool.
C5_Witness ==
    /\ Allocated(1) /\ ScenarioProfile(1) /\ media_type[1] = "books"
    /\ num_recommendations[1] = 5
    /\ Len(books["Positive"]) >= 3 /\ Len(books["Neutral"]) >= 2
    /\ books["Negative"] # << >>
    /\ Len(result[1]) = 5

(* -------------------------------- C6 ----------------------------------- *)

\* C6: when the three pools of the media type are empty, the call returns
\* the empty list, without an exception, for every three-label profile and
\* every count >= 1.
C6_EmptyCatalogGivesEmptyResult ==
    \A c \in Calls :
       (Allocated(c) /\ ThreeLabels(sentiment_probs[c]) /\ TotalOf(c) = 0)
          => raised[c] = "none" /\ result[c] = << >>

\* A call on the empty catalog, with a label above the threshold, returned.
C6_Witness ==
    /\ Allocated(1) /\ ThreeLabels(sentiment_probs[1]) /\ TotalOf(1) = 0
    /\ \E s \in Sentiments : ~AtMostTenth(ProbOf(sentiment_probs[1], s))
    /\ num_recommendations[1] >= 1
    /\ raised[1] = "none"

(* -------------------------------- C7 ----------------------------------- *)

\* Every pool and the genre mapping hold what the constructor put there,
\* in the same order.
CatalogAsConstructed ==
    /\ \A s \in Sentiments :
          /\ books[s] = MockItems("books", s, Len(books[s]))
          /\ movies[s] = MockItems("movies", s, Len(movies[s]))
    /\ genre_sentiment_mapping = GenreMapping

\* C7: no step of get_recommendations, get_genre_recommendations or
\* get_genres_for_sentiment changes a pool of books or movies or the genre
\* mapping: each holds the same elements in the same order as after
\* construction, so two lookups of the same pool see the same sequence.
C7_CatalogImmutable ==
    /\ []CatalogAsConstructed
    /\ [][/\ books' = books
          /\ movies' = movies
          /\ genre_sentiment_mapping' = genre_sentiment_mapping]_vars

\* get_recommendations has sampled a full pool, and the pool is whole.
C7_Witness ==
    /\ pc[1] = "done" /\ op[1] = "get_recommendations"
    /\ media_type[1] = "movies" /\ sentiment[1] = "Neutral"
    /\ Len(result[1]) = 2
    /\ Len(movies["Neutral"]) = MaxPool
    /\ result[1][1] # movies["Neutral"][1]

(* -------------------------------- C8 ----------------------------------- *)

\* Everything call c owns.
LocalsOf(c) ==
    <<pc[c], op[c], sentiment_probs[c], sentiment[c], media_type[c],
      num_recommendations[c], idx[c], total_items[c], result[c], raised[c]>>

\* The postconditions of a finished allocation.
PostconditionsOf(c) ==
    /\ raised[c] = "none"
    /\ Len(result[c]) <= num_recommendations[c]
    /\ NoDuplicates(result[c])
    /\ \A i \in DOMAIN result[c] :
          \E s \in Sentiments : result[c][i] \in Range(PoolOf(c, s))

\* C8: under every interleaving of the steps of concurrent
\* get_genre_recommendations calls, a step leaves the catalog as it is and
\* changes the locals of one call only, and every finished call's result
\* has at most count items, no repeated item, and only items of the
\* requested media type.
C8_ConcurrentCallsIndependent ==
    /\ [](\A c \in Calls : Allocated(c) => PostconditionsOf(c))
    /\ [][/\ catalog' = catalog
          /\ \E c \in Calls :
                \A d \in Calls \ {c} : LocalsOf(d)' = LocalsOf(d)]_vars

\* Call 1 has returned a full result while call 2, on the same media type,
\* is between its loop and its return with items selected.
C8_Witness ==
    /\ Allocated(1) /\ Len(result[1]) = num_recommendations[1]
    /\ Allocating(2) /\ pc[2] \in {"backfill", "trim"}
    /\ media_type[2] = media_type[1]
    /\ total_items[2] # << >>
    /\ total_items[2] # result[1]

(* -------------------------------- C9 ----------------------------------- *)

\* C9: get_genre_recommendations raises for no profile mapping, the empty
\* mapping and mappings with missing or unknown labels or out-of-range
\* values included.
C9_NeverRaises ==
    \A c \in Calls :
       op[c] = "get_genre_recommendations" => raised[c] = "none"

(* -------------------------------- C10 ---------------------------------- *)

\* The media type and the sentiment of call c are recognized ones.
Recognized(c) == media_type[c] \in MediaTypes /\ sentiment[c] \in Sentiments

\* C10 as stated: a lookup by (sentiment, media type) fails exactly when
\* the media type or the sentiment is not a recognized one.
C10_FailsExactlyWhenUnrecognized ==
    \A c \in Calls :
       (pc[c] = "done" /\ op[c] = "get_recommendations")
          => (raised[c] # "none" <=> ~Recognized(c))

\* C10, amended: a lookup never fails.  For an unrecognized media type or
\* sentiment get_recommendations returns the empty list, and so does
\* get_genres_for_sentiment for an unrecognized sentiment; for a recognized
\* combination get_recommendations returns the bucket's sequence when it
\* holds at most num_recommendations items, else num_recommendations of its
\* items, and get_genres_for_sentiment returns the sentiment's genre list.
C10_LookupNeverFails ==
    \A c \in Calls :
       /\ (pc[c] = "done" /\ op[c] = "get_recommendations")
            => /\ raised[c] = "none"
               /\ ~Recognized(c) => result[c] = << >>
               /\ Recognized(c) =>
                     IF Len(PoolOf(c, sentiment[c])) <= num_recommendations[c]
                     THEN result[c] = PoolOf(c, sentiment[c])
                     ELSE /\ Len(result[c]) = num_recommendations[c]
                          /\ Range(result[c])
                                \subseteq Range(PoolOf(c, sentiment[c]))
       /\ (pc[c] = "done" /\ op[c] = "get_genres_for_sentiment")
            => /\ raised[c] = "none"
               /\ result[c] = IF sentiment[c] \in Sentiments
                              THEN genre_sentiment_mapping[sentiment[c]]
                              ELSE << >>

\* get_recommendations was asked for an unknown sentiment of a known media
\* type whose pools are not empty, and returned the empty list.
C10_Witness ==
    /\ pc[1] = "done" /\ op[1] = "get_recommendations"
    /\ media_type[1] = "books" /\ sentiment[1] \notin Sentiments
    /\ books["Positive"] # << >>
    /\ raised[1] = "none" /\ result[1] = << >>

(* -------------------------------- C11 ---------------------------------- *)

\* The batch analysis has ended: with its results displayed, or in the
\* `except` around it.
BatchEnded == app_pc \in {"batch_shown", "batch_failed"}

\* Result row k is the row the claim gives cell k: the sentinel for a
\* non-string; for a string its preview, and the max label and the three
\* probabilities of the profile built from the scores the model gave.
RowAsClaimed(k) ==
    IF rows[k].str
    THEN /\ outputs[k].err = "none"
         /\ results[k].text =
               IF Len(rows[k].text) <= 100 THEN rows[k].text
               ELSE SubSeq(rows[k].text, 1, 100) \o <<".", ".", ".">>
         /\ results[k].negative = outputs[k].scores[1]
         /\ results[k].neutral = outputs[k].scores[2]
         /\ results[k].positive = outputs[k].scores[3]
         /\ results[k].max_sentiment \in Sentiments
    ELSE /\ results[k].text = InvalidText
         /\ results[k].max_sentiment = "N/A"
         /\ results[k].positive = <<0, 1>>
         /\ results[k].neutral = <<0, 1>>
         /\ results[k].negative = <<0, 1>>

\* C11: a batch analysis that has ended has produced one result row per
\* input row, in input order, each as the claim gives it.
C11_OneResultRowPerInputRow ==
    BatchEnded =>
       /\ Len(results) = Len(rows)
       /\ \A k \in DOMAIN rows : RowAsClaimed(k)

(* -------------------------------- C12 ---------------------------------- *)

\* Processing row k of the batch failed: the model call on it raised.
RowFailed(k) ==
    k \in DOMAIN outputs /\ outputs[k].err \notin {"none", "not called"}

\* C12: in a batch analysis that has ended, every row but those whose own
\* processing failed has its result row.
C12_EachRowFailureIsolated ==
    BatchEnded =>
       Len(results) = Cardinality({k \in DOMAIN rows : ~RowFailed(k)})

(* -------------------------------- C13 ---------------------------------- *)

\* The place of a label in the order Negative, Neutral, Positive.
Rank(s) == CASE s = "Negative" -> 1 [] s = "Neutral" -> 2 [] s = "Positive" -> 3

\* Equal rationals.
RatEq(p, q) == p[1] * q[2] = q[1] * p[2]

\* Label m is an argmax of the three-label profile p, and the first of the
\* labels of maximal probability in the order Negative, Neutral, Positive.
FirstArgmax(p, m) ==
    /\ m \in Sentiments
    /\ \A t \in Sentiments :
          /\ ~RatLess(ProbOf(p, m), ProbOf(p, t))
          /\ RatEq(ProbOf(p, t), ProbOf(p, m)) => Rank(m) <= Rank(t)

\* C13: the max_sentiment of every result of analyze_sentiment is an
\* argmax of its probabilities, and among tied labels the first in the
\* order Negative, Neutral, Positive; its probabilities are the scores of
\* the model under the labels in that order.
C13_DominantIsFirstArgmax ==
    /\ (app_pc \in {"books", "movies", "shown"} /\ Len(outputs) = 1)
          => /\ outputs[1].err = "none"
             /\ \A s \in Sentiments :
                   ProbOf(sentiment_result.probabilities, s)
                      = outputs[1].scores[Rank(s)]
    /\ sentiment_result.ok
          => FirstArgmax(sentiment_result.probabilities,
                         sentiment_result.max_sentiment)
    /\ app_pc \in {"batch", "batch_shown", "batch_failed"}
          => \A k \in DOMAIN results :
                rows[k].str =>
                   FirstArgmax(SentimentProbabilities(outputs[k].scores),
                               results[k].max_sentiment)

\* An analysis whose model output ties Neutral and Positive for the
\* maximum reported Neutral; one with a three-way tie reported Negative.
C13_Witness ==
    /\ app_pc = "books" /\ Len(outputs) = 1 /\ outputs[1].err = "none"
    /\ sentiment_result.ok
    /\ \/ /\ outputs[1].scores = <<<<2, 10>>, <<4, 10>>, <<4, 10>>>>
          /\ sentiment_result.max_sentiment = "Neutral"
       \/ /\ outputs[1].scores = <<<<1, 3>>, <<1, 3>>, <<1, 3>>>>
          /\ sentiment_result.max_sentiment = "Negative"


(* -------------------------------- C14 ---------------------------------- *)

\* C14: get_genre_recommendations returns no item twice, also on a catalog
\* in which the same item is in two bucket lists: step 1 skips what
\* total_items already holds.
C14_NoRepeatedItemOnOverlappingPools ==
    \A c \in Calls :
       (Allocated(c) /\ ThreeLabels(sentiment_probs[c]))
          => NoDuplicates(result[c])

(* -------------------------------- C15 ---------------------------------- *)

\* The items of the three bucket lists of catalog dict d.
ItemsOf(d) == UNION {Range(d[s]) : s \in DOMAIN d}

\* C15: every item get_genre_recommendations returns is an item of a bucket
\* list of the requested media type: of self.books for "books", of
\* self.movies for "movies", whatever the profile.
C15_ItemsOfRequestedMediaType ==
    \A c \in Calls :
       Allocated(c) =>
          /\ media_type[c] = "books" => Range(result[c]) \subseteq ItemsOf(books)
          /\ media_type[c] = "movies" => Range(result[c]) \subseteq ItemsOf(movies)

\* A movies call that returned items of two buckets, fewer than asked for.
C15_Witness ==
    /\ Allocated(1) /\ media_type[1] = "movies"
    /\ Len(result[1]) >= 2 /\ Len(result[1]) < num_recommendations[1]
    /\ \E s, t \in Sentiments :
          /\ s # t
          /\ Range(result[1]) \cap Range(movies[s]) # {}
          /\ Range(result[1]) \cap Range(movies[t]) # {}

(* -------------------------------- C16 ---------------------------------- *)

\* The last model call of the script run raised.
ModelCallFailed(outs) ==
    outs # << >> /\ outs[Len(outs)].err \notin {"none", "not called"}

\* The three-label profile p holds the scores t, label by label.
ProfileOfScores(p, t) ==
    /\ ThreeLabels(p)
    /\ \A s \in Sentiments : ProbOf(p, s) = t[Rank(s)]

\* A step in which a model call fails leaves the analysis result of the
\* session state and the batch's result rows as they are, and starts no
\* allocation.
FailureWritesNothing ==
    (outputs' # outputs /\ ModelCallFailed(outputs'))
       => /\ sentiment_result' = sentiment_result
          /\ results' = results
          /\ sentiment_probs' = sentiment_probs
          /\ app_pc' \in {"failed", "batch_failed"}

\* A step that stores an analysis result stores the profile of the scores
\* the model call of that step returned.
StoredProfileIsTheModels ==
    sentiment_result' # sentiment_result
       => /\ outputs' # << >> /\ ~ModelCallFailed(outputs')
          /\ sentiment_result'.ok
          /\ ProfileOfScores(sentiment_result'.probabilities,
                             outputs'[Len(outputs')].scores)

\* A step that starts an allocation passes the stored profile.
AllocatedProfileIsTheStored ==
    (pc[1] = "idle" /\ pc'[1] # "idle")
       => /\ sentiment_result.ok
          /\ sentiment_probs'[1] = sentiment_result.probabilities

\* C16: when the model call inside analyze_sentiment fails, no analysis
\* result is stored, no batch row is written and no allocation is started;
\* every stored profile, every profile passed to get_genre_recommendations
\* and every valid batch row holds scores a model call returned.
C16_ClassifierFailureSurfaced ==
    /\ [](/\ app_pc \in {"failed", "batch_failed"} => ModelCallFailed(outputs)
          /\ app_pc \in {"books", "movies", "shown", "batch", "batch_shown"}
                => ~ModelCallFailed(outputs)
          /\ \A k \in DOMAIN results :
                rows[k].str =>
                   /\ outputs[k].err = "none"
                   /\ results[k].negative = outputs[k].scores[1]
                   /\ results[k].neutral = outputs[k].scores[2]
                   /\ results[k].positive = outputs[k].scores[3])
    /\ [][/\ FailureWritesNothing
          /\ StoredProfileIsTheModels
          /\ AllocatedProfileIsTheStored]_vars

\* The model call of a single analysis failed in a session that already
\* holds the result of an earlier analysis: main() was left, the stored
\* result is still the earlier one and no allocation runs.
C16_Witness ==
    /\ app_pc = "failed"
    /\ Len(outputs) = 1 /\ outputs[1].err = "RuntimeError"
    /\ sentiment_result.ok
    /\ pc[1] = "idle"

(* -------------------------------- C17 ---------------------------------- *)

\* C17: a label whose probability is <= 0.1 has no item of its pool in
\* total_items when the loop of step 1 has ended, and, unless it is the
\* dominant label, none in the returned result.
C17_AtOrBelowThresholdTakesNothing ==
    \A c \in Calls : \A s \in Sentiments :
       (Allocating(c) /\ ThreeLabels(sentiment_probs[c]) /\ DisjointPools(c)
          /\ AtMostTenth(ProbOf(sentiment_probs[c], s)))
          => /\ pc[c] = "backfill" =>
                   CountFrom(total_items[c], PoolOf(c, s)) = 0
             /\ (pc[c] = "done" /\ ~Dominant(sentiment_probs[c], s)) =>
                   CountFrom(result[c], PoolOf(c, s)) = 0

\* A returned result that is short of count although the pool of a label
\* of probability exactly 0.1, not the dominant one, still holds items.
C17_Witness ==
    \E s \in Sentiments :
       /\ Allocated(1) /\ ThreeLabels(sentiment_probs[1])
       /\ ProbOf(sentiment_probs[1], s) = <<1, 10>>
       /\ ~Dominant(sentiment_probs[1], s)
       /\ PoolOf(1, s) # << >>
       /\ result[1] # << >>
       /\ Len(result[1]) < num_recommendations[1]

(* -------------------------------- C18 ---------------------------------- *)

\* The number of items step 1 owes label s in call c: the allocation
\* max(1, round(count * p)), cut to the size of the pool.
OwedTo(c, s) ==
    Min(Max(1, RoundHalfEven(num_recommendations[c],
                             ProbOf(sentiment_probs[c], s))),
        Len(PoolOf(c, s)))

\* C18: when the loop of step 1 has ended, total_items holds, of the pool
\* of every label with probability > 0.1, min(max(1, round(count * p)),
\* pool size) distinct items: at least one when the pool is not empty.
C18_AboveThresholdTakesAtLeastOne ==
    \A c \in Calls : \A s \in Sentiments :
       (Allocating(c) /\ ThreeLabels(sentiment_probs[c]) /\ DisjointPools(c)
          /\ pc[c] = "backfill"
          /\ ~AtMostTenth(ProbOf(sentiment_probs[c], s)))
          => /\ CountFrom(total_items[c], PoolOf(c, s)) = OwedTo(c, s)
             /\ NoDuplicates(total_items[c])
             /\ PoolOf(c, s) # << >> =>
                   CountFrom(total_items[c], PoolOf(c, s)) >= 1

\* The loop has ended with one item of the pool of a label whose rounded
\* share is 0 (count 1, probability 0.3).
C18_Witness ==
    \E s \in Sentiments :
       /\ Allocating(1) /\ ThreeLabels(sentiment_probs[1])
       /\ pc[1] = "backfill"
       /\ ProbOf(sentiment_probs[1], s) = <<3, 10>>
       /\ num_recommendations[1] = 1
       /\ RoundHalfEven(1, <<3, 10>>) = 0
       /\ Len(PoolOf(1, s)) > 1
       /\ CountFrom(total_items[1], PoolOf(1, s)) = 1

(* -------------------------------- C19 ---------------------------------- *)

\* s is a prefix of t.
IsPrefix(s, t) == Len(s) <= Len(t) /\ SubSeq(t, 1, Len(s)) = s

\* What a sequence holds after the first n entries.
After(t, n) == SubSeq(t, n + 1, Len(t))

\* Number of items step 1 draws in call c, over the three labels.
DrawnInStepOne(c) ==
    DrawOf(c, "Negative") + DrawOf(c, "Neutral") + DrawOf(c, "Positive")

\* The backfill step of call c: with count items or more it leaves
\* total_items as it is; with fewer it appends distinct items of the
\* dominant label's pool that total_items does not hold, no more than
\* count - len(total_items) of them.
BackfillStepAsClaimed(c) ==
    LET before == total_items[c]
        after  == total_items'[c]
        num    == num_recommendations[c]
        mt     == media_type[c]
    IN  (pc[c] = "backfill" /\ pc'[c] = "trim" /\ Allocating(c)
           /\ ThreeLabels(sentiment_probs[c]))
          => /\ IsPrefix(before, after)
             /\ Len(before) >= num => after = before
             /\ Len(before) < num =>
                   /\ Len(after) <= num
                   /\ NoDuplicates(After(after, Len(before)))
                   /\ \E s \in Sentiments :
                         /\ Dominant(sentiment_probs[c], s)
                         /\ Range(After(after, Len(before))) \subseteq
                               Range(IF mt = "books" THEN books[s]
                                                     ELSE movies[s])
                                  \ Range(before)

\* The trim step of call c returns total_items as it is when it holds no
\* more than count items, as it does after every backfill.
NoTrimAtOrBelowCount(c) ==
    (pc[c] = "trim" /\ pc'[c] = "done" /\ Allocating(c)
       /\ Len(total_items[c]) <= num_recommendations[c])
      => /\ raised'[c] = "none"
         /\ result'[c] = total_items[c]

\* C19: the backfill appends only when step 1 left fewer than count items,
\* and then only items of the dominant label's pool that are not yet
\* selected, at most count - len(total_items) of them; the list is then no
\* longer than count and the trim step returns it whole.
C19_BackfillOnlyFillsTheShortfall ==
    [][\A c \in Calls : BackfillStepAsClaimed(c) /\ NoTrimAtOrBelowCount(c)]_vars

\* A returned result of exactly count items, more of them than step 1 drew:
\* the backfill supplied the rest from a pool that step 1 had drawn from.
C19_Witness ==
    /\ Allocated(1) /\ ThreeLabels(sentiment_probs[1])
    /\ DrawnInStepOne(1) < num_recommendations[1]
    /\ Len(result[1]) = num_recommendations[1]
    /\ \E s \in Sentiments :
          /\ Dominant(sentiment_probs[1], s)
          /\ DrawOf(1, s) >= 1
          /\ Len(PoolOf(1, s)) > CountFrom(result[1], PoolOf(1, s))

(* -------------------------------- C20 ---------------------------------- *)

\* Number of positions of sequence s that hold x.
Occurrences(s, x) == Cardinality({i \in DOMAIN s : s[i] = x})

\* C20: when total_items holds more than count items after steps 1 and 2,
\* the trim step returns exactly count items, and no item more often than
\* total_items held it.
C20_TrimReturnsCountOfThePreTrimItems ==
    [][\A c \in Calls :
          (pc[c] = "trim" /\ pc'[c] = "done" /\ Allocating(c)
             /\ Len(total_items[c]) > num_recommendations[c])
            => /\ raised'[c] = "none"
               /\ Len(result'[c]) = num_recommendations[c]
               /\ \A x \in Range(result'[c]) :
                     /\ x \in Range(total_items[c])
                     /\ Occurrences(result'[c], x)
                           <= Occurrences(total_items[c], x)]_vars

\* A returned result of count items of a call whose step 1 drew more than
\* count items, from three buckets.
C20_Witness ==
    /\ Allocated(1) /\ ThreeLabels(sentiment_probs[1])
    /\ DrawnInStepOne(1) > num_recommendations[1]
    /\ \A s \in Sentiments : DrawOf(1, s) >= 1
    /\ raised[1] = "none"
    /\ Len(result[1]) = num_recommendations[1]

(* -------------------------------- C21 ---------------------------------- *)

\* C21: when the pools are disjoint and the pool of the dominant label
\* holds at least count items, get_genre_recommendations returns exactly
\* count items, whatever the profile (malformed ones with a dominant label
\* included) and the count.
C21_NeverShortWhenDominantPoolSuffices ==
    \A c \in Calls : \A s \in Sentiments :
       (Allocated(c) /\ Dominant(sentiment_probs[c], s) /\ DisjointPools(c)
          /\ Len(PoolOf(c, s)) >= num_recommendations[c])
          => /\ raised[c] = "none"
             /\ Len(result[c]) = num_recommendations[c]

\* A call whose step 1 drew from a pool other than the dominant one and
\* less than count in all, on a catalog whose dominant pool holds exactly
\* count items and which has an empty pool: it returned count items.
C21_Witness ==
    \E s \in Sentiments :
       /\ Allocated(1) /\ ThreeLabels(sentiment_probs[1])
       /\ Dominant(sentiment_probs[1], s)
       /\ Len(PoolOf(1, s)) = num_recommendations[1]
       /\ \E t \in Sentiments \ {s} : PoolOf(1, t) = << >>
       /\ \E t \in Sentiments \ {s} : CountFrom(result[1], PoolOf(1, t)) > 0
       /\ DrawnInStepOne(1) < num_recommendations[1]
       /\ Len(result[1]) = num_recommendations[1]

(* -------------------------------- C22 ---------------------------------- *)

\* |a|
Abs(a) == IF a < 0 THEN -a ELSE a

\* The integer nearest to num * prob, for a probability in 0..1; of the two
\* integers equally near to an exact half, the even one.
NearestEven(num, prob) ==
    CHOOSE k \in 0..num :
       /\ 2 * Abs(k * prob[2] - num * prob[1]) <= prob[2]
       /\ 2 * Abs(k * prob[2] - num * prob[1]) = prob[2] => k % 2 = 0

\* When the loop has ended in call c with count num, total_items holds
\* `taken` items of the pool of every label that has probability prob and a
\* pool of at least num items.
TakesOfLargePool(c, num, prob, taken) ==
    \A s \in Sentiments :
       (num_recommendations[c] = num /\ ProbOf(sentiment_probs[c], s) = prob
          /\ Len(PoolOf(c, s)) >= num)
          => CountFrom(total_items[c], PoolOf(c, s)) = taken

\* C22: an iteration of the loop of step 1 on a label with p > 0.1 appends
\* min(max(1, r), pool size) items, r being count * p rounded to the nearest
\* integer, an exact half to the even neighbour, for whichever label the
\* iteration is on; so 0.5 gives 1 item (0 raised to 1), 1.5 gives 2,
\* 2.5 gives 2 and 4.5 gives 4.
C22_RoundsHalfToEven ==
    /\ [](\A c \in Calls :
             (Allocating(c) /\ ThreeLabels(sentiment_probs[c])
                /\ pc[c] = "backfill")
               => /\ TakesOfLargePool(c, 1, <<1, 2>>, 1)
                  /\ TakesOfLargePool(c, 3, <<1, 2>>, 2)
                  /\ TakesOfLargePool(c, 5, <<1, 2>>, 2)
                  /\ TakesOfLargePool(c, 5, <<9, 10>>, 4))
    /\ [][\A c \in Calls :
             (pc[c] = "loop" /\ idx'[c] = idx[c] + 1
                /\ ~AtMostTenth(sentiment_probs[c][idx[c]][2]))
               => Len(total_items'[c]) - Len(total_items[c]) =
                     Min(Max(1, NearestEven(num_recommendations[c],
                                            sentiment_probs[c][idx[c]][2])),
                         Len(PoolOf(c, sentiment_probs[c][idx[c]][1])))]_vars

\* The loop has ended for count 5 and a label of probability 0.5 whose
\* pool holds five items: 2 of them were taken (2.5 rounded to 2), and one
\* of another label of probability 0.3.
C22_Witness ==
    \E s, t \in Sentiments :
       /\ Allocating(1) /\ pc[1] = "backfill"
       /\ num_recommendations[1] = 5
       /\ ProbOf(sentiment_probs[1], s) = <<1, 2>>
       /\ ProbOf(sentiment_probs[1], t) = <<3, 10>>
       /\ Len(PoolOf(1, s)) >= 5
       /\ CountFrom(total_items[1], PoolOf(1, s)) = 2
       /\ CountFrom(total_items[1], PoolOf(1, t)) = 1

(* -------------------------------- C23 ---------------------------------- *)

\* Call c is a get_genre_recommendations or get_recommendations call with
\* a media type other than 'books' and 'movies'.
OtherMediaType(c) ==
    /\ op[c] \in {"get_genre_recommendations", "get_recommendations"}
    /\ media_type[c] \notin {"books", "movies"}

\* C23: a get_genre_recommendations or get_recommendations call with a
\* media type other than 'books' and 'movies' ends in its first step,
\* before any bucket is looked up, with the empty list and no exception,
\* whatever the profile, the sentiment, the count and the catalog.
C23_OtherMediaTypeReturnsEmpty ==
    /\ [](\A c \in Calls :
             OtherMediaType(c) => /\ pc[c] = "done"
                                  /\ raised[c] = "none"
                                  /\ result[c] = << >>
                                  /\ total_items[c] = << >>)
    /\ [][\A c \in Calls :
             (pc[c] = "idle" /\ pc'[c] # "idle"
                /\ media_type'[c] \notin {"books", "movies"}
                /\ op'[c] # "get_genres_for_sentiment")
               => /\ pc'[c] = "done"
                  /\ result'[c] = << >>
                  /\ catalog' = catalog]_vars

\* get_genre_recommendations was called with media type 'music' and the
\* empty profile on a catalog with full pools, and returned the empty list.
C23_Witness ==
    /\ pc[1] = "done" /\ op[1] = "get_genre_recommendations"
    /\ media_type[1] = "music"
    /\ sentiment_probs[1] = << >>
    /\ \A s \in Sentiments : Len(books[s]) = MaxPool /\ Len(movies[s]) = MaxPool
    /\ raised[1] = "none" /\ result[1] = << >>

(* -------------------------------- C24 ---------------------------------- *)

\* C24: get_recommendations on a known media type returns, for a known
\* sentiment, min(n, pool size) items of the pool without a repeated item,
\* the pool itself when it holds no more than n items; for an unknown
\* sentiment it returns the empty list.
C24_MinOfCountAndPoolSize ==
    \A c \in Calls :
       (pc[c] = "done" /\ op[c] = "get_recommendations"
          /\ media_type[c] \in {"books", "movies"})
          => /\ raised[c] = "none"
             /\ IF sentiment[c] \in Sentiments
                THEN LET pool == PoolOf(c, sentiment[c])
                         n    == num_recommendations[c]
                     IN  /\ Len(result[c]) = Min(n, Len(pool))
                         /\ NoDuplicates(result[c])
                         /\ Range(result[c]) \subseteq Range(pool)
                         /\ Len(pool) <= n => result[c] = pool
                ELSE result[c] = << >>

\* get_recommendations returned two of the three items of a pool.
C24_Witness ==
    /\ pc[1] = "done" /\ op[1] = "get_recommendations"
    /\ media_type[1] \in {"books", "movies"} /\ sentiment[1] \in Sentiments
    /\ Len(PoolOf(1, sentiment[1])) > num_recommendations[1]
    /\ num_recommendations[1] >= 2
    /\ Len(result[1]) = num_recommendations[1]
    /\ NoDuplicates(result[1])

(* -------------------------------- C25 ---------------------------------- *)

\* The pool, in the catalog the running call of main() reads, of the label
\* analyze_sentiment reported as max_sentiment.
ReportedPool ==
    IF media_type[1] = "books" THEN books[sentiment_result.max_sentiment]
                               ELSE movies[sentiment_result.max_sentiment]

\* C25: in the recommendation calls main() makes with a profile of
\* analyze_sentiment, the backfill takes its items from the pool of the
\* label analyze_sentiment reported as max_sentiment, as many as the
\* shortfall and that pool allow, ties for the maximum included.
C25_BackfillLabelIsTheReportedLabel ==
    /\ [](sentiment_result.ok => sentiment_result.max_sentiment \in Sentiments)
    /\ [][(app_pc \in {"books", "movies"} /\ pc[1] = "backfill"
             /\ pc'[1] = "trim")
            => LET before   == total_items[1]
                   appended == After(total_items'[1], Len(total_items[1]))
                   left     == Range(ReportedPool) \ Range(before)
               IN  /\ Range(appended) \subseteq left
                   /\ Len(before) < num_recommendations[1] =>
                         Len(appended) =
                            Min(num_recommendations[1] - Len(before),
                                Cardinality(left))]_vars

\* The model gave a three-way tie, analyze_sentiment reported Negative,
\* and the books call for 4 items has backfilled: step 1 took one item of
\* each pool and the fourth item is a second one of the Negative pool.
C25_Witness ==
    /\ app_pc = "books" /\ pc[1] = "trim"
    /\ Len(outputs) = 1
    /\ outputs[1].scores = <<<<1, 3>>, <<1, 3>>, <<1, 3>>>>
    /\ sentiment_result.max_sentiment = "Negative"
    /\ num_recommendations[1] = 4
    /\ Len(total_items[1]) = 4
    /\ CountFrom(total_items[1], books["Negative"]) = 2

(* -------------------------------- C26 ---------------------------------- *)

\* d is a dict with exactly the keys Positive, Neutral and Negative, each
\* mapped to a list (possibly empty).
HasTheThreeBuckets(d) ==
    /\ DOMAIN d = {"Positive", "Neutral", "Negative"}
    /\ \A k \in DOMAIN d : DOMAIN d[k] = 1..Len(d[k])

\* C26: after construction, the fallback of a failed load included, and in
\* every later state, self.books and self.movies each hold exactly the
\* keys Positive, Neutral and Negative, each mapped to a list.
C26_CatalogsKeepTheThreeBuckets ==
    HasTheThreeBuckets(books) /\ HasTheThreeBuckets(movies)

\* The movie load took the fallback while the book load did not, and a
\* get_genre_recommendations call on movies has returned the empty list.
C26_Witness ==
    /\ movies = [s \in {"Positive", "Neutral", "Negative"} |-> << >>]
    /\ books["Positive"] # << >>
    /\ Allocated(1) /\ media_type[1] = "movies"
    /\ ThreeLabels(sentiment_probs[1])
    /\ raised[1] = "none" /\ result[1] = << >>

(* -------------------------------- C27 ---------------------------------- *)

\* The token the claim gives for `word`: '@user' for one that starts with
\* '@' and is longer than one character, 'http' for one that starts with
\* 'http', else the word itself.
ClaimedToken(word) ==
    IF Len(word) > 1 /\ word[1] = "@"
    THEN <<"@", "u", "s", "e", "r">>
    ELSE IF Len(word) >= 4 /\ word[1] = "h" /\ word[2] = "t"
              /\ word[3] = "t" /\ word[4] = "p"
    THEN <<"h", "t", "t", "p">>
    ELSE word

\* The text `returned` is what the claim gives for the text `given`: as
\* many spaces and as many space-separated tokens, each token the claimed
\* one.
AsClaimed(given, returned) ==
    LET words  == SplitSpace(given)
        tokens == SplitSpace(returned)
    IN  /\ Occurrences(returned, " ") = Occurrences(given, " ")
        /\ Len(words) = Occurrences(given, " ") + 1
        /\ Len(tokens) = Len(words)
        /\ \A i \in DOMAIN words : tokens[i] = ClaimedToken(words[i])

\* C27: the result of preprocess_tweet has as many spaces and as many
\* space-separated tokens as its argument, each token being '@user' for a
\* token that starts with '@' and is longer than one character, 'http' for
\* one that starts with 'http', and the token itself otherwise (a lone '@'
\* included); and preprocess_tweet returns its own result unchanged.
C27_PreprocessTweetAsClaimed ==
    [][/\ AsClaimed(tweet', tweet_proc')
       /\ tweet' = tweet_proc => tweet_proc' = tweet_proc]_vars

\* preprocess_tweet was called on '@a https: @' and returned
\* '@user http @'.
C27_Witness ==
    /\ tweet = <<"@", "a", " ", "h", "t", "t", "p", "s", ":", " ", "@">>
    /\ tweet_proc = <<"@", "u", "s", "e", "r", " ", "h", "t", "t", "p",
                      " ", "@">>

====
